---- MODULE Spec2Model ----
(***************************************************************************)
(* Model of the user authentication service                                *)
(* (0x03-user_authentication_service): the users table (db.py, user.py),   *)
(* the Auth engine (auth.py) and the Flask endpoints that call it (app.py). *)
(*                                                                         *)
(* Strings are TLA+ strings, Python's None is the value None, a password   *)
(* is the sequence of bytes password.encode() yields.  uuid4 is modelled   *)
(* as a generator that never repeats: its n-th value is the numeral of n.  *)
(***************************************************************************)
EXTENDS Integers, Sequences, FiniteSets, TLC

\* ------------------------------------------------------------------ bounds
MaxRows == 3
MaxTok == 2

\* ------------------------------------------------------- program constants
BcryptMaxBytes == 72

\* ------------------------------------------------------------ input values
None == "None"

RECURSIVE Rep(_, _)
Rep(b, n) == IF n = 0 THEN <<>> ELSE Append(Rep(b, n - 1), b)

ShortPw == <<1>>
LongPwA == Rep(1, BcryptMaxBytes) \o <<1>>
LongPwB == Rep(1, BcryptMaxBytes) \o <<2>>

\* Salts are the values bcrypt.gensalt() may return; IdArgs holds one id
\* that no row has.
Emails    == {"a@x", "b@x"}
EmailArgs == Emails \cup {""}
Passwords == {ShortPw, LongPwA, LongPwB}
PwArgs    == Passwords \cup {<<>>}
Salts     == {1}
TokArgs   == {None, ""} \cup {ToString(i) : i \in 1..MaxTok}
IdArgs    == 1..(Cardinality(Emails) + 1)

Min(a, b) == IF a < b THEN a ELSE b

\* Python truthiness of an optional string: `not x` holds of None and "".
Truthy(s) == s # None /\ s # ""

\* ------------------------------------------------------------------ bcrypt
\* bcrypt.hashpw keys the hash on at most the first 72 bytes of the password
\* and embeds the salt in its output; checkpw re-hashes with that salt.
hashpw(password, salt) ==
    [salt |-> salt,
     key  |-> SubSeq(password, 1, Min(Len(password), BcryptMaxBytes))]

checkpw(password, hashed_password) ==
    hashpw(password, hashed_password.salt) = hashed_password

\* A generator that yields the same value every time.
generate_uuid_fixed(n) == "1"

generate_uuid(n) == ToString(n)

\* ----------------------------------------------------------- the User model
\* A User that is born with a session.
User_loggedIn(id, email, hashed_password) ==
    [id |-> id, email |-> email, hashed_password |-> hashed_password,
     session_id |-> "0", reset_token |-> None]

User(id, email, hashed_password) ==
    [id |-> id, email |-> email, hashed_password |-> hashed_password,
     session_id |-> None, reset_token |-> None]

NoUser == [id |-> 0, email |-> None, hashed_password |-> [salt |-> 0, key |-> <<>>],
           session_id |-> None, reset_token |-> None]

\* Column names of User; User.__dict__ also holds the mapper's own entries.
Columns == {"id", "email", "hashed_password", "session_id", "reset_token"}
UserDictKeys == Columns \cup {"__tablename__", "__module__", "__doc__"}

valid_attributes(kwargs) == DOMAIN kwargs \subseteq UserDictKeys

\* ------------------------------------------------------------------- DB
\* The table is the sequence of rows in primary-key order; ids are 1..Len.
\* Results: [err, user] for a lookup, [err, db] for a write.

\* filter_by(col=v): col = v, and for v = None the test `col IS NULL`
\* (the integer key id is never compared with None here).
Matches(u, kwargs) ==
    \A k \in DOMAIN kwargs :
        IF k = "id" THEN u.id = kwargs[k]
        ELSE IF kwargs[k] = None THEN u[k] = None
        ELSE u[k] # None /\ u[k] = kwargs[k]

\* Query.first(): index of the first matching row, 0 when there is none.
FirstMatch(d, kwargs) ==
    LET hits == {i \in 1..Len(d) : Matches(d[i], kwargs)}
    IN  IF hits = {} THEN 0 ELSE CHOOSE i \in hits : \A j \in hits : i <= j

find_user_by(d, kwargs) ==
    IF DOMAIN kwargs = {} THEN [err |-> "InvalidRequestError", user |-> NoUser]
    ELSE IF ~valid_attributes(kwargs)
         THEN [err |-> "InvalidRequestError", user |-> NoUser]
    ELSE IF ~(DOMAIN kwargs \subseteq Columns)
         THEN [err |-> "InvalidRequestError", user |-> NoUser]
    ELSE LET i == FirstMatch(d, kwargs)
         IN  IF i = 0 THEN [err |-> "NoResultFound", user |-> NoUser]
             ELSE [err |-> "", user |-> d[i]]

add_user(d, email, hashed_password) ==
    Append(d, User(Len(d) + 1, email, hashed_password))

\* update_user that writes a whole new row: tokens not given become null.
update_user_replace(d, user_id, kwargs) ==
    IF ~valid_attributes(kwargs) THEN [err |-> "ValueError", db |-> d]
    ELSE LET f == find_user_by(d, [id |-> user_id])
         IN  IF f.err # "" THEN [err |-> f.err, db |-> d]
             ELSE [err |-> "",
                   db  |-> [i \in 1..Len(d) |->
                              IF d[i].id = user_id
                              THEN [c \in Columns |->
                                      IF c \in DOMAIN kwargs THEN kwargs[c]
                                      ELSE IF c \in {"session_id", "reset_token"}
                                      THEN None
                                      ELSE d[i][c]]
                              ELSE d[i]]]

\* setattr for every keyword, then commit: only columns reach the row.
update_user(d, user_id, kwargs) ==
    IF ~valid_attributes(kwargs) THEN [err |-> "ValueError", db |-> d]
    ELSE LET f == find_user_by(d, [id |-> user_id])
         IN  IF f.err # "" THEN [err |-> f.err, db |-> d]
             ELSE [err |-> "",
                   db  |-> [i \in 1..Len(d) |->
                              IF d[i].id = user_id
                              THEN [c \in Columns |->
                                      IF c \in DOMAIN kwargs THEN kwargs[c]
                                      ELSE d[i][c]]
                              ELSE d[i]]]

\* ------------------------------------------------------------------ Auth
\* Every method yields a result record:
\*   err    "" or the message of the exception raised
\*   ok     the boolean returned (valid_login)
\*   tok    the string returned (create_session, get_reset_password_token)
\*   user   the User returned, NoUser for None
\*   db     the table after the call;  uuids  the uuids generated so far
\*   nq     the number of find_user_by queries the call made
Result(err, ok, tok, user, d, n, nq) ==
    [err |-> err, ok |-> ok, tok |-> tok, user |-> user,
     db |-> d, uuids |-> n, nq |-> nq]

\* register_user without the lookup of an existing record.
register_user_unchecked(d, n, email, password, salt) ==
    IF ~Truthy(email)
    THEN Result("email missing", FALSE, None, NoUser, d, n, 0)
    ELSE IF password = <<>>
    THEN Result("password missing", FALSE, None, NoUser, d, n, 0)
    ELSE LET d2 == add_user(d, email, hashpw(password, salt))
         IN  Result("", FALSE, None, d2[Len(d2)], d2, n, 0)

register_user(d, n, email, password, salt) ==
    IF ~Truthy(email)
    THEN Result("email missing", FALSE, None, NoUser, d, n, 0)
    ELSE IF password = <<>>
    THEN Result("password missing", FALSE, None, NoUser, d, n, 0)
    ELSE IF find_user_by(d, [email |-> email]).err = ""
    THEN Result("already exists", FALSE, None, NoUser, d, n, 1)
    ELSE LET d2 == add_user(d, email, hashpw(password, salt))
         IN  Result("", FALSE, None, d2[Len(d2)], d2, n, 1)

\* valid_login that opens a session when the password matches.
valid_login_session(d, n, email, password) ==
    LET f == find_user_by(d, [email |-> email])
    IN  IF f.err # "" THEN Result("", FALSE, None, NoUser, d, n, 1)
        ELSE IF ~checkpw(password, f.user.hashed_password)
        THEN Result("", FALSE, None, NoUser, d, n, 1)
        ELSE Result("", TRUE, None, NoUser,
                    update_user(d, f.user.id, [session_id |-> ""]).db, n, 2)

valid_login(d, n, email, password) ==
    LET f == find_user_by(d, [email |-> email])
    IN  IF f.err # "" THEN Result("", FALSE, None, NoUser, d, n, 1)
        ELSE Result("", checkpw(password, f.user.hashed_password),
                    None, NoUser, d, n, 1)

\* create_session returning the session_id it read before the update.
create_session_stale(d, n, email) ==
    LET f == find_user_by(d, [email |-> email])
    IN  IF f.err # "" THEN Result("", FALSE, None, NoUser, d, n, 1)
        ELSE Result("", FALSE, f.user.session_id, NoUser,
                    update_user(d, f.user.id,
                        [session_id |-> generate_uuid(n + 1)]).db,
                    n + 1, 2)

\* The returned db_user.session_id is read back from the row after the
\* commit in update_user.
create_session(d, n, email) ==
    LET f == find_user_by(d, [email |-> email])
    IN  IF f.err # "" THEN Result("", FALSE, None, NoUser, d, n, 1)
        ELSE LET w == update_user(d, f.user.id,
                                  [session_id |-> generate_uuid(n + 1)])
             IN  Result("", FALSE, w.db[f.user.id].session_id, NoUser,
                        w.db, n + 1, 2)

\* get_user_from_session_id without the guard on an empty session id.
get_user_from_session_id_unguarded(d, n, session_id) ==
    LET f == find_user_by(d, [session_id |-> session_id])
    IN  Result("", FALSE, None, f.user, d, n, 1)

get_user_from_session_id(d, n, session_id) ==
    IF ~Truthy(session_id) THEN Result("", FALSE, None, NoUser, d, n, 0)
    ELSE LET f == find_user_by(d, [session_id |-> session_id])
         IN  Result("", FALSE, None, f.user, d, n, 1)

\* destroy_session that clears the session of every row.
destroy_session_all(d, n, user_id) ==
    IF find_user_by(d, [id |-> user_id]).err # ""
    THEN Result("not a valid user ID", FALSE, None, NoUser, d, n, 1)
    ELSE Result("", FALSE, None, NoUser,
                [i \in 1..Len(d) |-> [d[i] EXCEPT !.session_id = None]],
                n, 2)

\* destroy_session that checks the id and then clears nothing.
destroy_session_kept(d, n, user_id) ==
    IF find_user_by(d, [id |-> user_id]).err # ""
    THEN Result("not a valid user ID", FALSE, None, NoUser, d, n, 1)
    ELSE Result("", FALSE, None, NoUser, d, n, 1)

destroy_session(d, n, user_id) ==
    IF find_user_by(d, [id |-> user_id]).err # ""
    THEN Result("not a valid user ID", FALSE, None, NoUser, d, n, 1)
    ELSE Result("", FALSE, None, NoUser,
                update_user(d, user_id, [session_id |-> None]).db, n, 2)

\* get_reset_password_token that keeps a pending token in the row.
get_reset_password_token_kept(d, n, email) ==
    IF ~Truthy(email)
    THEN Result("email missing", FALSE, None, NoUser, d, n, 0)
    ELSE LET f == find_user_by(d, [email |-> email])
         IN  IF f.err # ""
             THEN Result("not found", FALSE, None, NoUser, d, n, 1)
             ELSE IF f.user.reset_token # None
             THEN Result("", FALSE, generate_uuid(n + 1), NoUser, d, n + 1, 1)
             ELSE Result("", FALSE, generate_uuid(n + 1), NoUser,
                         update_user(d, f.user.id,
                             [reset_token |-> generate_uuid(n + 1)]).db,
                         n + 1, 2)

get_reset_password_token(d, n, email) ==
    IF ~Truthy(email)
    THEN Result("email missing", FALSE, None, NoUser, d, n, 0)
    ELSE LET f == find_user_by(d, [email |-> email])
         IN  IF f.err # ""
             THEN Result("not found", FALSE, None, NoUser, d, n, 1)
             ELSE Result("", FALSE, generate_uuid(n + 1), NoUser,
                         update_user(d, f.user.id,
                             [reset_token |-> generate_uuid(n + 1)]).db,
                         n + 1, 2)

\* update_password that leaves the reset token in place.
update_password_kept(d, n, reset_token, password, salt) ==
    LET f == find_user_by(d, [reset_token |-> reset_token])
    IN  IF f.err # ""
        THEN Result("Reset token is invalid or expired", FALSE, None,
                    NoUser, d, n, 1)
        ELSE Result("", FALSE, None, NoUser,
                    update_user(d, f.user.id,
                        [hashed_password |-> hashpw(password, salt)]).db,
                    n, 2)

update_password(d, n, reset_token, password, salt) ==
    LET f == find_user_by(d, [reset_token |-> reset_token])
    IN  IF f.err # ""
        THEN Result("Reset token is invalid or expired", FALSE, None,
                    NoUser, d, n, 1)
        ELSE Result("", FALSE, None, NoUser,
                    update_user(d, f.user.id,
                        [hashed_password |-> hashpw(password, salt),
                         reset_token |-> None]).db,
                    n, 2)

\* ------------------------------------------------------------------- app
\* Every endpoint yields the response and the effect on the store:
\*   status, cookie (the session_id cookie set, None when none is set),
\*   email / tok (the email and reset_token of the JSON body),
\*   db, uuids, nq as above.
Response(status, cookie, email, tok, d, n, nq) ==
    [status |-> status, cookie |-> cookie, email |-> email, tok |-> tok,
     db |-> d, uuids |-> n, nq |-> nq]

\* utils.request_body_provided: every expected field present and non-empty.
request_body_provided(fields) == \A i \in 1..Len(fields) : fields[i]

users(d, n, email, password, salt) ==
    IF ~request_body_provided(<<Truthy(email), password # <<>> >>)
    THEN Response(400, None, None, None, d, n, 0)
    ELSE LET r == register_user(d, n, email, password, salt)
         IN  IF r.err # "" THEN Response(400, None, None, None, d, n, r.nq)
             ELSE Response(200, None, email, None, r.db, r.uuids, r.nq)

login(d, n, email, password) ==
    IF ~request_body_provided(<<Truthy(email), password # <<>> >>)
    THEN Response(400, None, None, None, d, n, 0)
    ELSE LET v == valid_login(d, n, email, password)
         IN  IF ~v.ok THEN Response(401, None, None, None, d, n, v.nq)
             ELSE LET c == create_session(d, n, email)
                  IN  Response(200, c.tok, email, None, c.db, c.uuids,
                               v.nq + c.nq)

logout(d, n, session_id) ==
    LET g == get_user_from_session_id(d, n, session_id)
    IN  IF g.user = NoUser THEN Response(403, None, None, None, d, n, g.nq)
        ELSE LET x == destroy_session(d, n, g.user.id)
             IN  Response(302, None, None, None, x.db, x.uuids, g.nq + x.nq)

profile(d, n, session_id) ==
    IF ~Truthy(session_id) THEN Response(403, None, None, None, d, n, 0)
    ELSE LET g == get_user_from_session_id(d, n, session_id)
         IN  IF g.user = NoUser
             THEN Response(403, None, None, None, d, n, g.nq)
             ELSE Response(200, None, g.user.email, None, d, n, g.nq)

reset_password_post(d, n, email) ==
    IF ~request_body_provided(<<Truthy(email)>>)
    THEN Response(400, None, None, None, d, n, 0)
    ELSE LET r == get_reset_password_token(d, n, email)
         IN  IF r.err # "" THEN Response(403, None, None, None, d, n, r.nq)
             ELSE Response(200, None, email, r.tok, r.db, r.uuids, r.nq)

reset_password_put(d, n, email, reset_token, new_password, salt) ==
    IF ~request_body_provided(<<Truthy(email), Truthy(reset_token),
                                new_password # <<>> >>)
    THEN Response(400, None, None, None, d, n, 0)
    ELSE LET r == update_password(d, n, reset_token, new_password, salt)
         IN  IF r.err # "" THEN Response(403, None, None, None, d, n, r.nq)
             ELSE Response(200, None, email, None, r.db, r.uuids, r.nq)

\* ------------------------------------------------------------------ state
\* db     the users table
\* uuids  number of uuids generated so far
\* last   the last call: its name, its token argument, the token it replaced
\*        or cleared, its outcome
\* plain  history: plain[id] is the password last set for user id
VARIABLES db, uuids, last, plain, calls

vars == <<db, uuids, last, plain, calls>>

\* calls[t] is the register_user call thread t is in: where it stands, its
\* arguments, and the error it raised ("" for none).
Threads == {1, 2}

Idle == [pc |-> "idle", email |-> "", password |-> <<>>, salt |-> 0, err |-> ""]

Done(email, err) ==
    [pc |-> "done", email |-> email, password |-> <<>>, salt |-> 0, err |-> err]

\* The record of an Auth method call / of a request to an endpoint.
Returned(op, token, old, r) ==
    [op |-> op, token |-> token, old |-> old, err |-> r.err, status |-> 0]

Answered(op, token, old, r) ==
    [op |-> op, token |-> token, old |-> old, err |-> "",
     status |-> r.status]

\* The value a column of the row with this email / id had before the call.
OldOfEmail(email, column) ==
    LET i == FirstMatch(db, [email |-> email])
    IN  IF i = 0 THEN None ELSE db[i][column]

OldOfId(user_id, column) ==
    IF user_id \in 1..Len(db) THEN db[user_id][column] ELSE None

Init ==
    /\ db = <<>>
    /\ uuids = 0
    /\ last = [op |-> "init", token |-> None, old |-> None, err |-> "",
               status |-> 0]
    /\ plain = <<>>
    /\ calls = [t \in Threads |-> Idle]

Effect(rec, r) ==
    /\ last' = rec
    /\ db' = r.db
    /\ uuids' = r.uuids
    /\ calls' = calls

\* History after a registration: the new user's password.
Registered(succeeded, password) ==
    plain' = IF succeeded THEN Append(plain, password) ELSE plain

\* History after a password update: whose password it set.
Reset(succeeded, reset_token, password) ==
    plain' = IF succeeded
             THEN [plain EXCEPT
                     ![FirstMatch(db, [reset_token |-> reset_token])] = password]
             ELSE plain

Same == UNCHANGED plain

\* -------------------------------------------------- calls of Auth methods
Call_register_user ==
    \E email \in EmailArgs, password \in PwArgs, salt \in Salts :
        LET r == register_user(db, uuids, email, password, salt)
        IN  /\ Effect(Returned("register_user", None, None, r), r)
            /\ Registered(r.err = "", password)

Call_valid_login ==
    \E email \in EmailArgs, password \in PwArgs :
        LET r == valid_login(db, uuids, email, password)
        IN  /\ Effect(Returned("valid_login", None, None, r), r)
            /\ Same

Call_create_session ==
    \E email \in EmailArgs :
        LET r == create_session(db, uuids, email)
        IN  /\ r.uuids <= MaxTok
            /\ Effect(Returned("create_session", None,
                               OldOfEmail(email, "session_id"), r), r)
            /\ Same

Call_get_user_from_session_id ==
    \E session_id \in TokArgs :
        LET r == get_user_from_session_id(db, uuids, session_id)
        IN  /\ Effect(Returned("get_user_from_session_id", session_id, None, r), r)
            /\ Same

Call_destroy_session ==
    \E user_id \in IdArgs :
        LET r == destroy_session(db, uuids, user_id)
        IN  /\ Effect(Returned("destroy_session", None,
                               OldOfId(user_id, "session_id"), r), r)
            /\ Same

Call_get_reset_password_token ==
    \E email \in EmailArgs :
        LET r == get_reset_password_token(db, uuids, email)
        IN  /\ r.uuids <= MaxTok
            /\ Effect(Returned("get_reset_password_token", None,
                               OldOfEmail(email, "reset_token"), r), r)
            /\ Same

Call_update_password ==
    \E reset_token \in TokArgs, password \in PwArgs, salt \in Salts :
        LET r == update_password(db, uuids, reset_token, password, salt)
        IN  /\ Effect(Returned("update_password", reset_token, None, r), r)
            /\ Reset(r.err = "", reset_token, password)

\* ------------------------------------------------ requests to the endpoints
Request_users ==
    \E email \in EmailArgs, password \in PwArgs, salt \in Salts :
        LET r == users(db, uuids, email, password, salt)
        IN  /\ Effect(Answered("users", None, None, r), r)
            /\ Registered(r.status = 200, password)

Request_login ==
    \E email \in EmailArgs, password \in PwArgs :
        LET r == login(db, uuids, email, password)
        IN  /\ r.uuids <= MaxTok
            /\ Effect(Answered("login", None, OldOfEmail(email, "session_id"), r), r)
            /\ Same

Request_logout ==
    \E session_id \in TokArgs :
        LET r == logout(db, uuids, session_id)
        IN  /\ Effect(Answered("logout", session_id, None, r), r)
            /\ Same

Request_profile ==
    \E session_id \in TokArgs :
        LET r == profile(db, uuids, session_id)
        IN  /\ Effect(Answered("profile", session_id, None, r), r)
            /\ Same

Request_reset_password_post ==
    \E email \in EmailArgs :
        LET r == reset_password_post(db, uuids, email)
        IN  /\ r.uuids <= MaxTok
            /\ Effect(Answered("reset_password_post", None,
                               OldOfEmail(email, "reset_token"), r), r)
            /\ Same

Request_reset_password_put ==
    \E email \in EmailArgs, reset_token \in TokArgs, password \in PwArgs,
       salt \in Salts :
        LET r == reset_password_put(db, uuids, email, reset_token, password,
                                    salt)
        IN  /\ Effect(Answered("reset_password_put", reset_token, None, r), r)
            /\ Reset(r.status = 200, reset_token, password)

\* ------------------------------- register_user calls on concurrent threads
\* The threads of the server share AUTH and its one memoized session; a call
\* is the steps of register_user, and steps of different calls interleave.
RacePwArgs == {ShortPw, <<>>}

InStore(t) == calls[t].pc \in {"lookup", "insert"}

\* The shared session is used without a lock: a query or a commit made while
\* another thread is inside its own call can also raise from the session.
SessionError == "session error"

Finish(t, err) ==
    /\ calls' = [calls EXCEPT ![t] = Done(calls[t].email, err)]
    /\ UNCHANGED <<db, uuids, last, plain>>

\* The checks of the arguments, before any query.
Race_register_user(t) ==
    /\ calls[t].pc = "idle"
    /\ Len(db) + Cardinality({u \in Threads : InStore(u)}) < MaxRows
    /\ \E email \in EmailArgs, password \in RacePwArgs, salt \in Salts :
         calls' = [calls EXCEPT ![t] =
                     IF ~Truthy(email) THEN Done(email, "email missing")
                     ELSE IF password = <<>>
                     THEN Done(email, "password missing")
                     ELSE [pc |-> "lookup", email |-> email,
                           password |-> password, salt |-> salt, err |-> ""]]
    /\ UNCHANGED <<db, uuids, last, plain>>

\* The try block: the lookup by email on the table as it is now.
Race_find_user_by(t) ==
    /\ calls[t].pc = "lookup"
    /\ \/ IF find_user_by(db, [email |-> calls[t].email]).err = ""
          THEN Finish(t, "already exists")
          ELSE /\ calls' = [calls EXCEPT ![t].pc = "insert"]
               /\ UNCHANGED <<db, uuids, last, plain>>
       \/ /\ \E u \in Threads \ {t} : InStore(u)
          /\ Finish(t, SessionError)

\* The hash and the insert, whatever the table holds by now.
Race_add_user(t) ==
    /\ calls[t].pc = "insert"
    /\ \/ /\ db' = add_user(db, calls[t].email,
                            hashpw(calls[t].password, calls[t].salt))
          /\ plain' = Append(plain, calls[t].password)
          /\ calls' = [calls EXCEPT ![t] = Done(calls[t].email, "")]
          /\ UNCHANGED <<uuids, last>>
       \/ /\ \E u \in Threads \ {t} : InStore(u)
          /\ Finish(t, SessionError)

\* The call returns or raises to its caller.
Race_return(t) ==
    /\ calls[t].pc = "done"
    /\ last' = [op |-> "register_user", token |-> None, old |-> None,
                err |-> calls[t].err, status |-> 0]
    /\ calls' = [calls EXCEPT ![t] = Idle]
    /\ UNCHANGED <<db, uuids, plain>>

NextRace ==
    \/ \E t \in Threads : Race_register_user(t)
    \/ \E t \in Threads : Race_find_user_by(t)
    \/ \E t \in Threads : Race_add_user(t)
    \/ \E t \in Threads : Race_return(t)

NextAuth ==
    \/ Call_register_user
    \/ Call_valid_login
    \/ Call_create_session
    \/ Call_get_user_from_session_id
    \/ Call_destroy_session
    \/ Call_get_reset_password_token
    \/ Call_update_password

NextApp ==
    \/ Request_users
    \/ Request_login
    \/ Request_logout
    \/ Request_profile
    \/ Request_reset_password_post
    \/ Request_reset_password_put

\* Spec: the Auth methods called directly, one at a time.
\* SpecApp: the same engine driven through the endpoints of app.py.
Spec == Init /\ [][NextAuth]_vars
SpecApp == Init /\ [][NextApp]_vars

SpecRace == Init /\ [][NextRace]_vars

TypeOK ==
    /\ uuids \in 0..MaxTok
    /\ Len(db) <= Cardinality(Emails)
    /\ \A i \in 1..Len(db) : db[i].id = i /\ db[i].email \in Emails
    /\ Len(plain) = Len(db)

\* ------------------------------------------------------------ properties
\* A property about a method is stated on every reachable state, for every
\* argument: the state is the one the call is made in, r is what it yields.

RowOf(d, email) == FirstMatch(d, [email |-> email])
Registered_(email) == RowOf(db, email) > 0
InvalidToken == "Reset token is invalid or expired"
SessionsOf(d) == [i \in 1..Len(d) |-> d[i].session_id]

\* C1 -- after register_user(email, password) succeeds, valid_login(email,
\* password) is true and valid_login(email, wrong) is false for every
\* wrong # password, and this stays so for as long as no password reset is
\* consumed for that user.
C1_AfterRegister ==
    (last.op = "register_user" /\ last.err = "") =>
        LET i == Len(db)
        IN  /\ valid_login(db, uuids, db[i].email, plain[i]).ok
            /\ \A wrong \in PwArgs \ {plain[i]} :
                 ~valid_login(db, uuids, db[i].email, wrong).ok

C1_UntilReset ==
    \A i \in 1..Len(db) :
        ~(/\ last'.op = "update_password"
          /\ last'.err = ""
          /\ FirstMatch(db, [reset_token |-> last'.token]) = i)
        => \A p \in PwArgs :
             valid_login(db', uuids', db[i].email, p).ok
               = valid_login(db, uuids, db[i].email, p).ok

C1_LoginAfterRegister == [](C1_AfterRegister) /\ [][C1_UntilReset]_vars

\* C2 -- register_user with an email that already has a record fails with
\* "already exists" and leaves the table as it is.
C2_DuplicateAlreadyExists ==
    \A email \in EmailArgs, password \in PwArgs, salt \in Salts :
        Registered_(email) =>
            LET r == register_user(db, uuids, email, password, salt)
            IN  r.err = "already exists" /\ r.db = db

\* C2 (amended) -- register_user with an email that already has a record
\* fails and leaves the table as it is: with "already exists" when the
\* password is non-empty, with "password missing" when it is empty.
C2_DuplicateRejected ==
    \A email \in EmailArgs, password \in PwArgs, salt \in Salts :
        Registered_(email) =>
            LET r == register_user(db, uuids, email, password, salt)
            IN  /\ r.db = db
                /\ r.err = IF password = <<>> THEN "password missing"
                           ELSE "already exists"

C2_Witness ==
    /\ last.op = "register_user"
    /\ last.err = "already exists"
    /\ Len(db) = 2
    /\ \E i \in 1..Len(db) : db[i].session_id # None /\ db[i].reset_token # None

\* C3 -- for a registered email create_session returns a non-null token, the
\* one now stored as that user's session_id, and get_user_from_session_id of
\* it, called next, returns that user.
C3_SessionResolvesToUser ==
    \A email \in EmailArgs :
        Registered_(email) =>
            LET i == RowOf(db, email)
                r == create_session(db, uuids, email)
                g == get_user_from_session_id(r.db, r.uuids, r.tok)
            IN  /\ r.tok # None
                /\ r.tok = r.db[i].session_id
                /\ g.user = r.db[i]
                /\ g.user.id = db[i].id
                /\ g.user.email = email

C3_Witness ==
    /\ last.op = "create_session"
    /\ Len(db) = 2
    /\ db[2].session_id # None
    /\ db[1].session_id = generate_uuid(uuids)

\* C4 -- after destroy_session(id) succeeds for a user whose session token
\* was T, the user's session_id is null and get_user_from_session_id(T)
\* returns None.
C4_DestroyedSessionAbsent ==
    \A user_id \in IdArgs :
        LET r == destroy_session(db, uuids, user_id)
        IN  r.err = "" =>
              /\ r.db[user_id].session_id = None
              /\ get_user_from_session_id(r.db, r.uuids,
                     db[user_id].session_id).user = NoUser

C4_Witness ==
    /\ last.op = "destroy_session"
    /\ last.err = ""
    /\ last.old # None
    /\ Len(db) = 2
    /\ \E i \in 1..2 : db[i].session_id # None

\* C5 -- for a registered user with password oldPw whose pending reset token
\* is T, update_password(T, newPw) succeeds for every newPw, and afterwards
\* valid_login(email, newPw) is true and valid_login(email, oldPw) is false
\* (read for newPw # oldPw).
C5_Succeeds ==
    \A i \in 1..Len(db), newPw \in Passwords, salt \in Salts :
        db[i].reset_token # None =>
            update_password(db, uuids, db[i].reset_token, newPw, salt).err = ""

C5_Effect ==
    (last'.op = "update_password" /\ last'.err = "" /\ last'.token # None) =>
        LET i == FirstMatch(db, [reset_token |-> last'.token])
        IN  plain'[i] # plain[i] =>
              /\ valid_login(db', uuids', db[i].email, plain'[i]).ok
              /\ ~valid_login(db', uuids', db[i].email, plain[i]).ok

C5_ResetReplacesPassword == [](C5_Succeeds) /\ [][C5_Effect]_vars

\* C6 -- a reset token is single-use: once update_password(T, p) has
\* succeeded the user's reset_token is null, and every later
\* update_password(T, q) fails with InvalidToken and changes no
\* hashed_password.  Stated as: the call clears the token; a generated value
\* that is no record's reset_token never becomes one again; and
\* update_password with such a value fails and changes nothing.
Pending(d, T) == \E i \in 1..Len(d) : d[i].reset_token = T
Generated == {generate_uuid(k) : k \in 1..uuids}

C6_Cleared ==
    \A T \in Generated, p \in PwArgs, salt \in Salts :
        LET i == FirstMatch(db, [reset_token |-> T])
            r == update_password(db, uuids, T, p, salt)
        IN  r.err = "" => r.db[i].reset_token = None /\ ~Pending(r.db, T)

C6_SpentFails ==
    \A T \in Generated, q \in PwArgs, salt \in Salts :
        ~Pending(db, T) =>
            LET r == update_password(db, uuids, T, q, salt)
            IN  /\ r.err = InvalidToken
                /\ \A i \in 1..Len(db) :
                     r.db[i].hashed_password = db[i].hashed_password

C6_StaysSpent ==
    \A T \in Generated : ~Pending(db, T) => ~Pending(db', T)

C6_ResetTokenSingleUse ==
    [](C6_Cleared /\ C6_SpentFails) /\ [][C6_StaysSpent]_vars

C6_Witness ==
    /\ last.op = "update_password"
    /\ last.err = ""
    /\ last.token \in Generated
    /\ ~Pending(db, last.token)
    /\ Len(db) = 2
    /\ \E i \in 1..Len(db) : db[i].reset_token \in Generated

\* C7 -- update_password with a reset_token argument that is not the current
\* non-null reset_token of some record fails with InvalidToken and leaves
\* every record's hashed_password, session_id and reset_token unchanged.
C7_Step ==
    (/\ last'.op = "update_password"
     /\ ~\E i \in 1..Len(db) :
           db[i].reset_token # None /\ db[i].reset_token = last'.token)
    => (last'.err = InvalidToken /\ db' = db)

C7_UnknownTokenRejected == [][C7_Step]_vars

\* C8 -- a login request with an unknown email or a wrong password (both
\* fields present) is answered 401 without a session_id cookie and leaves
\* every record's session_id unchanged.
C8_FailedLoginNoSession ==
    \A email \in Emails, password \in Passwords :
        (~Registered_(email) \/ password # plain[RowOf(db, email)]) =>
            LET r == login(db, uuids, email, password)
            IN  /\ r.status = 401
                /\ r.cookie = None
                /\ SessionsOf(r.db) = SessionsOf(db)

\* C9 -- get_user_from_session_id with an empty or absent session id returns
\* None without querying the store, also when records have a null
\* session_id; a request without a session cookie gets 403 from profile.
C9_EmptySessionIdAbsent ==
    \A session_id \in {None, ""} :
        LET g == get_user_from_session_id(db, uuids, session_id)
        IN  /\ g.user = NoUser
            /\ g.nq = 0
            /\ profile(db, uuids, session_id).status = 403

C9_Witness ==
    /\ last.op = "get_user_from_session_id"
    /\ last.token = None
    /\ Len(db) = 2
    /\ db[1].session_id = None
    /\ db[2].session_id # None

\* C10 -- create_session for a user whose session_id is already T1 stores
\* and returns a fresh T2 # T1; afterwards get_user_from_session_id(T1)
\* returns None and get_user_from_session_id(T2) returns the user.
C10_NewSessionReplacesOld ==
    \A email \in EmailArgs :
        (Registered_(email) /\ db[RowOf(db, email)].session_id # None) =>
            LET i  == RowOf(db, email)
                T1 == db[i].session_id
                r  == create_session(db, uuids, email)
            IN  /\ r.tok # T1
                /\ r.db[i].session_id = r.tok
                /\ get_user_from_session_id(r.db, r.uuids, T1).user = NoUser
                /\ get_user_from_session_id(r.db, r.uuids, r.tok).user
                     = r.db[i]

C10_Witness ==
    /\ last.op = "create_session"
    /\ last.old # None
    /\ \E i \in 1..Len(db) :
         db[i].session_id = generate_uuid(uuids) /\ db[i].session_id # last.old
\* C11 -- only the latest reset request is honoured: when
\* get_reset_password_token(email) is called for a user whose pending token
\* is T1 it returns T2 # T1; then update_password(T1, p) fails with
\* InvalidToken and changes nothing, while update_password(T2, p) succeeds
\* and sets that user's password.
C11_LatestResetTokenOnly ==
    \A email \in EmailArgs, p \in PwArgs, salt \in Salts :
        (Registered_(email) /\ db[RowOf(db, email)].reset_token # None) =>
            LET i  == RowOf(db, email)
                T1 == db[i].reset_token
                r  == get_reset_password_token(db, uuids, email)
                u1 == update_password(r.db, r.uuids, T1, p, salt)
                u2 == update_password(u1.db, u1.uuids, r.tok, p, salt)
            IN  /\ r.err = ""
                /\ r.tok # T1
                /\ u1.err = InvalidToken
                /\ u1.db = r.db
                /\ u2.err = ""
                /\ u2.db[i].hashed_password = hashpw(p, salt)
                /\ u2.db[i].reset_token = None

C11_Witness ==
    /\ last.op = "get_reset_password_token"
    /\ last.err = ""
    /\ last.old # None
    /\ \E i \in 1..Len(db) :
         db[i].reset_token = generate_uuid(uuids) /\ db[i].reset_token # last.old

\* C12 -- valid_login never changes the store, whatever it returns, and for
\* an unregistered email it returns false without raising.
C12_Step ==
    last'.op = "valid_login" => (db' = db /\ last'.err = "")

C12_Unregistered ==
    \A email \in EmailArgs \cup {None}, password \in PwArgs :
        LET r == valid_login(db, uuids, email, password)
        IN  /\ r.db = db
            /\ r.err = ""
            /\ ~Registered_(email) => ~r.ok

C12_ValidLoginReadOnly == [](C12_Unregistered) /\ [][C12_Step]_vars

C12_Witness ==
    /\ last.op = "valid_login"
    /\ Len(db) = 1
    /\ db[1].session_id # None
    /\ db[1].reset_token # None
    /\ valid_login(db, uuids, db[1].email, plain[1]).ok
\* C13 -- the session and reset axes are independent: create_session and
\* destroy_session leave every record's reset_token unchanged, and
\* get_reset_password_token and update_password leave every record's
\* session_id unchanged.
ResetsOf(d) == [i \in 1..Len(d) |-> d[i].reset_token]

C13_AxesIndependent ==
    /\ \A email \in EmailArgs :
         ResetsOf(create_session(db, uuids, email).db) = ResetsOf(db)
    /\ \A user_id \in IdArgs :
         ResetsOf(destroy_session(db, uuids, user_id).db) = ResetsOf(db)
    /\ \A email \in EmailArgs :
         SessionsOf(get_reset_password_token(db, uuids, email).db)
           = SessionsOf(db)
    /\ \A reset_token \in TokArgs, password \in PwArgs, salt \in Salts :
         SessionsOf(update_password(db, uuids, reset_token, password,
                                    salt).db) = SessionsOf(db)

C13_Witness ==
    /\ last.op = "update_password"
    /\ last.err = ""
    /\ last.token \in {generate_uuid(k) : k \in 1..uuids}
    /\ Len(db) = 1
    /\ db[1].session_id # None
    /\ db[1].reset_token = None
\* C14 -- in every state reached by Auth calls made one at a time, no two
\* records have the same email.
C14_OneRecordPerEmail ==
    \A i, j \in 1..Len(db) : i # j => db[i].email # db[j].email

C14_Witness ==
    /\ last.op = "register_user"
    /\ last.err = "already exists"
    /\ Len(db) = 2
    /\ uuids = MaxTok

\* C15 -- with a generator that never repeats, no two records share a
\* non-null session_id, no two share a non-null reset_token, and the lookup
\* by a live token matches exactly one record.
C15_LiveTokensUnique ==
    /\ \A i, j \in 1..Len(db) :
         i # j =>
           /\ db[i].session_id # None => db[i].session_id # db[j].session_id
           /\ db[i].reset_token # None => db[i].reset_token # db[j].reset_token
    /\ \A i \in 1..Len(db) :
         /\ db[i].session_id # None =>
              {j \in 1..Len(db) :
                 Matches(db[j], [session_id |-> db[i].session_id])} = {i}
         /\ db[i].reset_token # None =>
              {j \in 1..Len(db) :
                 Matches(db[j], [reset_token |-> db[i].reset_token])} = {i}

C15_Witness ==
    /\ Len(db) = 2
    /\ last.op \in {"create_session", "get_reset_password_token"}
    /\ \/ db[1].session_id # None /\ db[2].session_id # None
       \/ db[1].reset_token # None /\ db[2].reset_token # None

\* C16 -- destroy_session with a user_id that matches no record fails with
\* ValueError and changes no record; with an existing user_id it sets only
\* that record's session_id to null, and calling it again succeeds with no
\* further change.
C16_DestroySession ==
    \A user_id \in IdArgs :
        LET r  == destroy_session(db, uuids, user_id)
            r2 == destroy_session(r.db, r.uuids, user_id)
        IN  IF user_id \in 1..Len(db)
            THEN /\ r.err = ""
                 /\ r.db = [db EXCEPT ![user_id].session_id = None]
                 /\ r2.err = ""
                 /\ r2.db = r.db
            ELSE /\ r.err = "not a valid user ID"
                 /\ r.db = db

C16_Witness ==
    /\ last.op = "destroy_session"
    /\ last.err = ""
    /\ last.old = None
    /\ Len(db) = 2
    /\ db[1].session_id = None
    /\ db[2].session_id # None
    /\ db[2].reset_token # None
\* Keyword sets handed to update_user: columns alone, a name that is no
\* attribute of User, and attributes of the class User that are not columns.
KwArgs ==
    { <<>>,
      [session_id |-> "1"],
      [reset_token |-> None],
      [hashed_password |-> hashpw(ShortPw, 1), reset_token |-> None],
      [email |-> "b@x", session_id |-> None],
      [bogus |-> "1"],
      [session_id |-> "1", bogus |-> "1"],
      [k \in {"__tablename__"} |-> "x"],
      [k \in {"session_id", "__doc__"} |-> "1"] }

\* C17 -- update_user(id, fields): a field name outside id, email,
\* hashed_password, session_id, reset_token makes it fail with no record
\* changed; an id matching no record makes it fail with NotFound and no
\* record changed; otherwise exactly the supplied fields of that one record
\* take their new values and no other record changes.
C17_UpdateUserContract ==
    \A user_id \in IdArgs, kwargs \in KwArgs :
        LET r == update_user(db, user_id, kwargs)
        IN  IF ~(DOMAIN kwargs \subseteq Columns)
            THEN r.err # "" /\ r.db = db
            ELSE IF user_id \notin 1..Len(db)
            THEN r.err = "NoResultFound" /\ r.db = db
            ELSE /\ r.err = ""
                 /\ Len(r.db) = Len(db)
                 /\ \A i \in 1..Len(db), c \in Columns :
                      r.db[i][c] = IF i = user_id /\ c \in DOMAIN kwargs
                                   THEN kwargs[c]
                                   ELSE db[i][c]

\* C18 -- in every step no record is deleted, no id or email changes, and a
\* hashed_password changes only when the step is a successful
\* update_password whose token was that record's live (non-null)
\* reset_token; hence no other operation changes a hashed_password.
C18_Step ==
    /\ Len(db') >= Len(db)
    /\ \A i \in 1..Len(db) :
         /\ db'[i].id = db[i].id
         /\ db'[i].email = db[i].email
         /\ db'[i].hashed_password # db[i].hashed_password =>
              /\ last'.op = "update_password"
              /\ last'.err = ""
              /\ db[i].reset_token # None
              /\ last'.token = db[i].reset_token

C18_PasswordChangesOnlyByReset == [][C18_Step]_vars
\* The state of one record on the two axes: <<logged in, reset pending>>.
Combo(u) == <<u.session_id # None, u.reset_token # None>>

C19_FreshStart ==
    \A email \in EmailArgs, password \in PwArgs, salt \in Salts :
        LET r == register_user(db, uuids, email, password, salt)
        IN  r.err = "" =>
              /\ Len(r.db) = Len(db) + 1
              /\ r.db[Len(r.db)].session_id = None
              /\ r.db[Len(r.db)].reset_token = None
              /\ Combo(r.db[Len(r.db)]) = <<FALSE, FALSE>>

\* From any state of a record, create_session or destroy_session chooses the
\* session axis, then get_reset_password_token reaches resetPending and
\* update_password with that token reaches resetIdle.
C19_FourReachable ==
    \A email \in EmailArgs, password \in PwArgs, salt \in Salts :
        Registered_(email) =>
            LET i  == RowOf(db, email)
                cs == create_session(db, uuids, email)
                ds == destroy_session(db, uuids, i)
                g1 == get_reset_password_token(cs.db, cs.uuids, email)
                u1 == update_password(g1.db, g1.uuids, g1.tok, password, salt)
                g2 == get_reset_password_token(ds.db, ds.uuids, email)
                u2 == update_password(g2.db, g2.uuids, g2.tok, password, salt)
            IN  /\ Combo(g1.db[i]) = <<TRUE, TRUE>>
                /\ Combo(u1.db[i]) = <<TRUE, FALSE>>
                /\ Combo(g2.db[i]) = <<FALSE, TRUE>>
                /\ Combo(u2.db[i]) = <<FALSE, FALSE>>

\* Each axis holds null or a generated token, nothing else.
C19_InFour ==
    \A i \in 1..Len(db) :
        /\ db[i].session_id \in {None} \cup Generated
        /\ db[i].reset_token \in {None} \cup Generated

C19_NeverRemoved ==
    /\ Len(db') >= Len(db)
    /\ \A i \in 1..Len(db) : db'[i].id = db[i].id /\ db'[i].email = db[i].email

\* C19 -- a freshly registered record is (loggedOut, resetIdle) with null
\* session_id and reset_token; each of the four combinations of
\* {loggedOut, loggedIn} x {resetIdle, resetPending} is reachable for a user
\* through create_session, destroy_session, get_reset_password_token and
\* update_password; no operation leads outside these four or removes the
\* record.
C19_RecordStateMachine ==
    [](C19_FreshStart /\ C19_FourReachable /\ C19_InFour)
        /\ [][C19_NeverRemoved]_vars

C19_Witness ==
    /\ last.op = "register_user"
    /\ last.err = ""
    /\ Len(db) = 2
    /\ Combo(db[1]) = <<TRUE, TRUE>>
    /\ Combo(db[2]) = <<FALSE, FALSE>>

Live(d, T) == \E i \in 1..Len(d) : d[i].session_id = T

C20_Dies ==
    \A i \in 1..Len(db) :
        db[i].session_id # None =>
            /\ ~Live(destroy_session(db, uuids, i).db, db[i].session_id)
            /\ ~Live(create_session(db, uuids, db[i].email).db, db[i].session_id)

C20_DeadAbsent ==
    \A T \in Generated :
        ~Live(db, T) => get_user_from_session_id(db, uuids, T).user = NoUser

C20_StaysDead ==
    \A T \in Generated : ~Live(db, T) => ~Live(db', T)

\* C20 -- with a generator that never repeats, a session token that stopped
\* being live (by destroy_session, or by a later create_session of its user)
\* never resolves again: in every later state get_user_from_session_id of
\* it returns None.
C20_DeadSessionNeverResolves ==
    [](C20_Dies /\ C20_DeadAbsent) /\ [][C20_StaysDead]_vars

C20_Witness ==
    /\ last.op = "get_user_from_session_id"
    /\ last.token \in Generated
    /\ ~Live(db, last.token)
    /\ ~Pending(db, last.token)
    /\ Len(db) = 2
    /\ \E i \in 1..Len(db) : db[i].session_id \in Generated
RecordsWith(email) == {i \in 1..Len(db) : db[i].email = email}

\* C21 -- when register_user calls for one email run on concurrent threads
\* with their lookup and insert steps interleaved, at most one of them
\* succeeds and the table holds at most one record with that email.
C21_ConcurrentRegisterOnce ==
    /\ \A t, u \in Threads :
         (t # u /\ calls[t].pc = "done" /\ calls[u].pc = "done"
              /\ calls[t].email = calls[u].email) =>
           ~(calls[t].err = "" /\ calls[u].err = "")
    /\ \A email \in Emails : Cardinality(RecordsWith(email)) <= 1
====
